---- MODULE Spec2Model ----
(***************************************************************************)
(* LearnFlow: the admin-privilege hook (useAdmin), the sign-up form        *)
(* controller (SignUpPage), the admin dashboard aggregator                 *)
(* (AdminDashboardPage) and the project-collaboration schema with its      *)
(* row-level-security policies (migration 20250605105327_dry_pine.sql).    *)
(*                                                                         *)
(* The four components own disjoint state, so each has its own             *)
(* specifications: SpecAdmin, SpecSignup, SpecDashboard (SpecDashboardLive *)
(* with fairness), SpecDb and its restrictions, SpecDbChecks.              *)
(***************************************************************************)
EXTENDS Integers, Sequences, FiniteSets, TLC

VARIABLES
  \* ---- useAdmin ----
  user,          \* the identity useAuth() provides
  admin_users,   \* the admin_users table
  isAdmin,       \* useState(false)
  isLoading,     \* useState(true)
  mounted,       \* the mount effect has run
  inflight,      \* lookups awaiting their response
  issued,        \* number of lookups issued so far
  latest,        \* what the most recent run of checkAdminStatus produced
  computedFor,   \* the user?.email of the run that stored the current isAdmin
  adminEv,       \* the last step of the hook
  \* ---- SignUpPage ----
  variant,          \* which side of the merge conflict is built
  step,             \* useState(1), two-step variant
  email,            \* useState('')
  name,             \* useState('')
  password,         \* useState('')
  confirmPassword,  \* useState('')
  isSubmitting,     \* useState(false)
  error,            \* useState('')
  pendingSignups,   \* signup() calls that have not settled
  isAuthenticated,  \* from useAuth()
  navigated,        \* navigate('/learn') has run; the page is gone
  signupEv,         \* the last step of the form
  \* ---- AdminDashboardPage ----
  stats,            \* useState<DashboardStats>({ all zero })
  dashLoading,      \* useState(true)
  dashPc,           \* 0: not mounted; k in 1..5: awaiting query k; 6: returned
  got,              \* the counts destructured so far
  failed,           \* the queries that settled with an error
  dashEv,           \* the last step of the aggregator
  \* ---- project collaboration schema ----
  projects,             \* ids of the rows of projects
  project_participants, \* rows [project_id, user_id, role]
  project_timelines,    \* rows [id, project_id]
  project_resources,    \* rows [id, project_id, created_by]
  project_updates,      \* rows [id, project_id]
  project_discussions,  \* rows [id, project_id, update_id, created_by]
  \* ---- enumerated columns of the schema, by row ----
  projects_status,      \* projects.status of each project id
  timelines_phase,      \* project_timelines.phase of each row id
  timelines_status,     \* project_timelines.status of each row id
  resources_type        \* project_resources.type of each row id

adminVars == <<user, admin_users, isAdmin, isLoading, mounted, inflight, issued,
               latest, computedFor, adminEv>>

signupVars == <<variant, step, email, name, password, confirmPassword,
                isSubmitting, error, pendingSignups, isAuthenticated, navigated,
                signupEv>>

dashVars == <<stats, dashLoading, dashPc, got, failed, dashEv>>

dbVars == <<projects, project_participants, project_timelines, project_resources,
            project_updates, project_discussions>>

enumVars == <<projects_status, timelines_phase, timelines_status, resources_type>>

vars == <<adminVars, signupVars, dashVars, dbVars, enumVars>>

NULL == "NULL"

\* ------------------------------------------------------------------------
\* useAdmin
\* ------------------------------------------------------------------------

MaxLookups == 3
MaxAdminRows == 2

Emails == {"a@x", "b@x"}
NoUser == "no-user"
NoEmail == "user-without-email"
Identities == {NoUser, NoEmail} \cup Emails

\* user?.email taken as present for every user object
EmailOfAnyUser(u) == IF u = NoUser THEN NULL ELSE u

\* user?.email
EmailOf(u) == IF u \in Emails THEN u ELSE NULL

AdminRow == [id : 1..MaxAdminRows, email : Emails, is_active : BOOLEAN]

AdminTables ==
  {t \in SUBSET AdminRow : \A r1, r2 \in t : r1.id = r2.id => r1 = r2}

NoRowsCode == "PGRST116"
OtherCode == "OTHER"
NoError == "no-error"
\* data: null is the empty sequence, a row { id } is <<id>>
NoData == <<>>

\* .eq('email', ...) without the is_active filter
ActiveMatchesAnyFlag(table, mail) == {r \in table : r.email = mail}

\* .from('admin_users').select('id').eq('email', user.email).eq('is_active', true)
ActiveMatches(table, mail) ==
  {r \in table : r.email = mail /\ r.is_active = TRUE}

\* .single(): one row -> data; zero or several rows -> the "no rows" error
Single(rows) ==
  IF Cardinality(rows) = 1
    THEN [data |-> <<(CHOOSE r \in rows : TRUE).id>>, error |-> NoError, thrown |-> FALSE]
    ELSE [data |-> NoData, error |-> NoRowsCode, thrown |-> FALSE]

\* what the awaited query can settle to: the answer, another error, an exception
Responses(table, mail) ==
  { Single(ActiveMatches(table, mail)),
    [data |-> NoData, error |-> OtherCode, thrown |-> FALSE],
    [data |-> NoData, error |-> NoError, thrown |-> TRUE] }

\* error && error.code === 'PGRST116'
ShouldLogInverted(err) == err # NoError /\ err = NoRowsCode

\* error && error.code !== 'PGRST116'
ShouldLog(err) == err # NoError /\ err # NoRowsCode

\* !!data
AdminFromData(data) == data # NoData

\* the try/catch/finally of checkAdminStatus applied to a settled query
Settle(resp) ==
  IF resp.thrown
    THEN [isAdmin |-> FALSE, logged |-> TRUE, escaped |-> FALSE]
    ELSE [isAdmin |-> AdminFromData(resp.data),
          logged |-> ShouldLog(resp.error),
          escaped |-> FALSE]

NoEv == [kind |-> "none"]

\* isAdmin still holds its useState(false) value
NotComputed == "not-computed"

InitAdminVars ==
  /\ user \in Identities
  /\ admin_users \in AdminTables
  /\ isAdmin = FALSE
  /\ isLoading = TRUE
  /\ mounted = FALSE
  /\ inflight = {}
  /\ issued = 0
  /\ latest = [kind |-> "none"]
  /\ computedFor = NotComputed
  /\ adminEv = NoEv

\* checkAdminStatus up to its first await, for identity u
CheckAdminStatus(u) ==
  IF EmailOf(u) = NULL
    THEN /\ isAdmin' = FALSE
         /\ isLoading' = FALSE
         /\ latest' = [kind |-> "no-email", value |-> FALSE]
         /\ computedFor' = NULL
         /\ adminEv' = [kind |-> "effect", email |-> NULL, remote |-> FALSE]
         /\ UNCHANGED <<inflight, issued>>
    ELSE /\ issued < MaxLookups
         /\ issued' = issued + 1
         /\ inflight' = inflight \cup {[id |-> issued + 1, email |-> EmailOf(u)]}
         /\ latest' = [kind |-> "pending", id |-> issued + 1,
                        raced |-> \E l \in inflight : l.email # EmailOf(u)]
         /\ adminEv' = [kind |-> "effect", email |-> EmailOf(u), remote |-> TRUE]
         /\ UNCHANGED <<isAdmin, isLoading, computedFor>>

\* useEffect(() => { checkAdminStatus(); }, [user]) on mount
Mount ==
  /\ ~mounted
  /\ mounted' = TRUE
  /\ CheckAdminStatus(user)
  /\ UNCHANGED <<user, admin_users>>

\* the auth context provides a new user object; the effect runs again
ChangeUser(u) ==
  /\ mounted
  /\ user' = u
  /\ CheckAdminStatus(u)
  /\ UNCHANGED <<admin_users, mounted>>

\* the awaited query of lookup l settles with resp; the continuation runs
CompleteLookup(l, resp) ==
  /\ l \in inflight
  /\ resp \in Responses(admin_users, l.email)
  /\ inflight' = inflight \ {l}
  /\ isAdmin' = Settle(resp).isAdmin
  /\ computedFor' = l.email
  /\ isLoading' = FALSE
  /\ latest' = IF latest.kind = "pending" /\ latest.id = l.id
                 THEN [kind |-> "done", id |-> l.id, raced |-> latest.raced,
                       value |-> Settle(resp).isAdmin]
                 ELSE latest
  /\ adminEv' = [kind |-> "complete", email |-> l.email, resp |-> resp,
                 logged |-> Settle(resp).logged, escaped |-> Settle(resp).escaped]
  /\ UNCHANGED <<user, admin_users, mounted, issued>>

ChangeUserStep == \E u \in Identities : ChangeUser(u)

CompleteLookupStep ==
  \E l \in inflight : \E resp \in Responses(admin_users, l.email) : CompleteLookup(l, resp)

\* the other components are not running
AdminOnly == UNCHANGED <<signupVars, dashVars, dbVars, enumVars>>

NextAdmin ==
  \/ Mount /\ AdminOnly
  \/ ChangeUserStep /\ AdminOnly
  \/ CompleteLookupStep /\ AdminOnly

\* ---- properties of useAdmin ----

\* a failure other than the "no rows" signal: another error code, or an exception
IsFailure(resp) ==
  resp.thrown \/ (resp.error # NoError /\ resp.error # NoRowsCode)

\* the active admin_users rows of an email, counted from the table itself
ActiveRowCount(mail) ==
  Cardinality({r \in admin_users : r.email = mail /\ r.is_active})

\* C1: when the latest lookup was issued while a lookup for another identity
\* was still in flight (latest.raced), then once every issued lookup has
\* completed isAdmin is the value computed for the latest identity; the
\* earlier lookup, completing later, does not overwrite it.
C1_LatestIdentityWins ==
  (mounted /\ inflight = {} /\ latest.kind = "done" /\ latest.raced)
    => isAdmin = latest.value

\* C9: a lookup that fails with anything but "no rows" (an error with another
\* code, or an exception) is logged, leaves isAdmin = FALSE and
\* isLoading = FALSE, and does not propagate out of checkAdminStatus.
C9_FailClosed ==
  (adminEv.kind = "complete" /\ IsFailure(adminEv.resp)) =>
    /\ isAdmin = FALSE
    /\ isLoading = FALSE
    /\ adminEv.logged
    /\ ~adminEv.escaped

\* a failing lookup completed for an email that does have one active admin row
C9_Witness ==
  /\ adminEv.kind = "complete"
  /\ IsFailure(adminEv.resp)
  /\ ActiveRowCount(adminEv.email) = 1
  /\ isAdmin = FALSE

\* C10: a lookup that does not fail stores TRUE when exactly one active
\* admin_users row matches the email and FALSE when none does; the "no rows"
\* outcome (PGRST116) is neither logged nor thrown.
C10_LookupResult ==
  (adminEv.kind = "complete" /\ ~IsFailure(adminEv.resp)) =>
    /\ ActiveRowCount(adminEv.email) = 1 => isAdmin = TRUE
    /\ ActiveRowCount(adminEv.email) = 0 =>
         (isAdmin = FALSE /\ adminEv.resp.error = NoRowsCode)
    /\ adminEv.resp.error = NoRowsCode => (~adminEv.logged /\ ~adminEv.escaped)
    /\ isLoading = FALSE

\* a successful lookup for an email with exactly one active row, next to an
\* inactive row of the other email
C10_Witness ==
  /\ adminEv.kind = "complete"
  /\ ~IsFailure(adminEv.resp)
  /\ ActiveRowCount(adminEv.email) = 1
  /\ isAdmin = TRUE
  /\ \E r \in admin_users : r.email # adminEv.email /\ ~r.is_active

\* C11: when the effect runs for an absent identity or one without an email,
\* checkAdminStatus stores isAdmin = FALSE and isLoading = FALSE and issues
\* no remote lookup.
C11_NoEmailNoLookup ==
  [][(adminEv'.kind = "effect" /\ user' \in {NoUser, NoEmail}) =>
       /\ isAdmin' = FALSE
       /\ isLoading' = FALSE
       /\ inflight' = inflight
       /\ issued' = issued]_vars

\* the identity lost its email (logout) while a lookup was still in flight
C11_Witness ==
  /\ adminEv.kind = "effect"
  /\ user \in {NoUser, NoEmail}
  /\ issued = 1
  /\ inflight # {}
  /\ isAdmin = FALSE
  /\ isLoading = FALSE

\* C21: whenever isLoading is FALSE, the stored isAdmin was computed for the
\* current identity; in particular isAdmin = TRUE is not exposed with
\* isLoading = FALSE for an identity whose email has no active admin row.
C21_LoadedIsCurrent ==
  (mounted /\ isLoading = FALSE) =>
    /\ computedFor = EmailOf(user)
    /\ (isAdmin /\ EmailOf(user) # NULL) => ActiveRowCount(EmailOf(user)) >= 1

\* ------------------------------------------------------------------------
\* SignUpPage
\* ------------------------------------------------------------------------

MaxPending == 2

TwoStep == "two-step"        \* HEAD
SingleStep == "single-step"  \* upstream/main

LowerCaseChars ==
  {"a", "b", "c", "d", "e", "f", "g", "h", "i", "j", "k", "l", "m",
   "n", "o", "p", "q", "r", "s", "t", "u", "v", "w", "x", "y", "z"}
UpperCaseChars ==
  {"A", "B", "C", "D", "E", "F", "G", "H", "I", "J", "K", "L", "M",
   "N", "O", "P", "Q", "R", "S", "T", "U", "V", "W", "X", "Y", "Z"}
DigitChars == {"0", "1", "2", "3", "4", "5", "6", "7", "8", "9"}
\* the class [!@#$%^&*(),.?":{}|<>]
SpecialChars ==
  {"!", "@", "#", "$", "%", "^", "&", "*", "(", ")", ",", ".", "?", "\"",
   ":", "{", "}", "|", "<", ">"}

\* a password is the sequence of its characters
Rep(c, n) == [i \in 1..n |-> c]

MinLength == 8
MinStrength == 3

HasLowerCase(p) == \E i \in 1..Len(p) : p[i] \in LowerCaseChars
HasUpperCase(p) == \E i \in 1..Len(p) : p[i] \in UpperCaseChars
HasNumber(p) == \E i \in 1..Len(p) : p[i] \in DigitChars
HasSpecialChar(p) == \E i \in 1..Len(p) : p[i] \in SpecialChars
IsLongEnough(p) == Len(p) >= MinLength

\* the score without the length indicator
PasswordStrengthWithoutLength(p) ==
  Cardinality({k \in 1..4 :
    \/ k = 1 /\ HasLowerCase(p)
    \/ k = 2 /\ HasUpperCase(p)
    \/ k = 3 /\ HasNumber(p)
    \/ k = 4 /\ HasSpecialChar(p)})

\* [ ... ].filter(Boolean).length
PasswordStrength(p) ==
  Cardinality({k \in 1..5 :
    \/ k = 1 /\ HasLowerCase(p)
    \/ k = 2 /\ HasUpperCase(p)
    \/ k = 3 /\ HasNumber(p)
    \/ k = 4 /\ HasSpecialChar(p)
    \/ k = 5 /\ IsLongEnough(p)})

\* the labels with 'Good' starting one score early
GetPasswordStrengthLabelEarlyGood(score) ==
  IF score = 0 THEN "Very Weak"
  ELSE IF score = 1 THEN "Weak"
  ELSE IF score = 2 THEN "Good"
  ELSE IF score = 3 THEN "Good"
  ELSE IF score = 4 THEN "Strong"
  ELSE "Very Strong"

GetPasswordStrengthLabel(score) ==
  IF score = 0 THEN "Very Weak"
  ELSE IF score = 1 THEN "Weak"
  ELSE IF score = 2 THEN "Fair"
  ELSE IF score = 3 THEN "Good"
  ELSE IF score = 4 THEN "Strong"
  ELSE "Very Strong"

\* the values typed into the fields
TypedPasswords ==
  { <<>>,
    <<"_">>,
    <<"a">>,
    <<"a", "A">>,
    <<"a", "A", "1">>,
    <<"a", "A", "1", "!">>,
    Rep("_", 8),
    Rep("a", 8),
    Rep("a", 6) \o <<"A">>,
    Rep("a", 7) \o <<"A">>,
    <<"a", "A", "1", "!">> \o Rep("a", 4) }
TypedNames == {"", "Al"}
TypedEmails == {"", "al@x"}

ErrEmail == "Please enter your email address"
ErrRequired == "Please fill in all required fields"
ErrMismatch == "Passwords do not match"
ErrWeak == "Please choose a stronger password"
ErrGeneric == "Something went wrong. Please try again."

\* passwordStrength < 2
TooWeakOffByOne(score) == score < MinStrength - 1

\* passwordStrength < 3
TooWeak(score) == score < MinStrength

\* !name || !password || !confirmPassword  (and !email in the single-step form)
RequiredMissing ==
  IF variant = TwoStep
    THEN name = "" \/ password = <<>> \/ confirmPassword = <<>>
    ELSE name = "" \/ email = "" \/ password = <<>> \/ confirmPassword = <<>>

\* the same checks with the password comparison first
ValidationErrorMismatchFirst ==
  IF password # confirmPassword THEN ErrMismatch
  ELSE IF RequiredMissing THEN ErrRequired
  ELSE IF TooWeak(PasswordStrength(password)) THEN ErrWeak
  ELSE ""

\* the three checks of the final handler, in their order; "" when all pass
ValidationError ==
  IF RequiredMissing THEN ErrRequired
  ELSE IF password # confirmPassword THEN ErrMismatch
  ELSE IF TooWeak(PasswordStrength(password)) THEN ErrWeak
  ELSE ""

InitSignupVars ==
  /\ variant \in {TwoStep, SingleStep}
  /\ step = 1
  /\ email = ""
  /\ name = ""
  /\ password = <<>>
  /\ confirmPassword = <<>>
  /\ isSubmitting = FALSE
  /\ error = ""
  /\ pendingSignups = 0
  /\ isAuthenticated = FALSE
  /\ navigated = FALSE
  /\ signupEv = NoEv

\* the final form is on screen
FinalFormShown == variant = SingleStep \/ step = 2

\* onChange of an email input rendered on both steps
SetEmailAnyStep(e) ==
  /\ ~navigated
  /\ email' = e
  /\ signupEv' = [kind |-> "edit"]
  /\ UNCHANGED <<variant, step, name, password, confirmPassword, isSubmitting,
                 error, pendingSignups, isAuthenticated, navigated>>

\* onChange of the email input (rendered at step 1 of the two-step form)
SetEmail(e) ==
  /\ ~navigated
  /\ variant = TwoStep => step = 1
  /\ email' = e
  /\ signupEv' = [kind |-> "edit"]
  /\ UNCHANGED <<variant, step, name, password, confirmPassword, isSubmitting,
                 error, pendingSignups, isAuthenticated, navigated>>

SetName(n) ==
  /\ ~navigated
  /\ FinalFormShown
  /\ name' = n
  /\ signupEv' = [kind |-> "edit"]
  /\ UNCHANGED <<variant, step, email, password, confirmPassword, isSubmitting,
                 error, pendingSignups, isAuthenticated, navigated>>

SetPassword(p) ==
  /\ ~navigated
  /\ FinalFormShown
  /\ password' = p
  /\ signupEv' = [kind |-> "edit"]
  /\ UNCHANGED <<variant, step, email, name, confirmPassword, isSubmitting,
                 error, pendingSignups, isAuthenticated, navigated>>

SetConfirmPassword(p) ==
  /\ ~navigated
  /\ FinalFormShown
  /\ confirmPassword' = p
  /\ signupEv' = [kind |-> "edit"]
  /\ UNCHANGED <<variant, step, email, name, password, isSubmitting,
                 error, pendingSignups, isAuthenticated, navigated>>

\* step 1 without the test of the email
HandleEmailSubmitUnchecked ==
  /\ ~navigated
  /\ variant = TwoStep
  /\ step = 1
  /\ error' = ""
  /\ step' = 2
  /\ signupEv' = [kind |-> "email-submit"]
  /\ UNCHANGED <<variant, email, name, password, confirmPassword, isSubmitting,
                 pendingSignups, isAuthenticated, navigated>>

\* Step 1: Email only
HandleEmailSubmit ==
  /\ ~navigated
  /\ variant = TwoStep
  /\ step = 1
  /\ IF email = ""
       THEN /\ error' = ErrEmail
            /\ UNCHANGED step
       ELSE /\ error' = ""
            /\ step' = 2
  /\ signupEv' = [kind |-> "email-submit"]
  /\ UNCHANGED <<variant, email, name, password, confirmPassword, isSubmitting,
                 pendingSignups, isAuthenticated, navigated>>

\* onClick={() => setStep(1)}
Back ==
  /\ ~navigated
  /\ variant = TwoStep
  /\ step = 2
  /\ step' = 1
  /\ signupEv' = [kind |-> "back"]
  /\ UNCHANGED <<variant, email, name, password, confirmPassword, isSubmitting,
                 error, pendingSignups, isAuthenticated, navigated>>

\* a submit button without the disabled attribute
SubmitNeverDisabled == FALSE

\* <button type="submit" disabled={isSubmitting}>
SubmitDisabled == isSubmitting

\* handleDetailsSubmit / handleSubmit up to the await; a disabled submit
\* button submits nothing
HandleSubmit ==
  /\ ~navigated
  /\ FinalFormShown
  /\ ~SubmitDisabled
  /\ pendingSignups < MaxPending
  /\ IF ValidationError # ""
       THEN /\ error' = ValidationError
            /\ signupEv' = [kind |-> "submit", called |-> FALSE]
            /\ UNCHANGED <<isSubmitting, pendingSignups>>
       ELSE /\ error' = ""
            /\ isSubmitting' = TRUE
            /\ pendingSignups' = pendingSignups + 1
            /\ signupEv' = [kind |-> "submit", called |-> TRUE]
  /\ UNCHANGED <<variant, step, email, name, password, confirmPassword,
                 isAuthenticated, navigated>>

\* the text of the rejection signup() settles with
RawFailure == "User already registered"

\* catch (err) { setError(err.message) }
CatchMessageRaw(err) == err

\* catch (err) { setError('Something went wrong. Please try again.') }
CatchMessage(err) == ErrGeneric

\* await signup(...) settles: catch sets the generic error, finally clears
\* isSubmitting
SignupSettles(ok) ==
  /\ pendingSignups > 0
  /\ pendingSignups' = pendingSignups - 1
  /\ isSubmitting' = FALSE
  /\ error' = IF ok THEN error ELSE CatchMessage(RawFailure)
  /\ isAuthenticated' = (isAuthenticated \/ ok)
  /\ signupEv' = [kind |-> "settled", ok |-> ok]
  /\ UNCHANGED <<variant, step, email, name, password, confirmPassword, navigated>>

\* useEffect: if (isAuthenticated) navigate('/learn', { replace: true })
Redirect ==
  /\ isAuthenticated
  /\ ~navigated
  /\ navigated' = TRUE
  /\ signupEv' = [kind |-> "redirect"]
  /\ UNCHANGED <<variant, step, email, name, password, confirmPassword,
                 isSubmitting, error, pendingSignups, isAuthenticated>>

SetEmailStep == \E e \in TypedEmails : SetEmail(e)
SetNameStep == \E n \in TypedNames : SetName(n)
SetPasswordStep == \E p \in TypedPasswords : SetPassword(p)
SetConfirmPasswordStep == \E p \in TypedPasswords : SetConfirmPassword(p)
SignupSettlesStep == \E ok \in BOOLEAN : SignupSettles(ok)

SignupOnly == UNCHANGED <<adminVars, dashVars, dbVars, enumVars>>

NextSignup ==
  \/ SetEmailStep /\ SignupOnly
  \/ SetNameStep /\ SignupOnly
  \/ SetPasswordStep /\ SignupOnly
  \/ SetConfirmPasswordStep /\ SignupOnly
  \/ HandleEmailSubmit /\ SignupOnly
  \/ Back /\ SignupOnly
  \/ HandleSubmit /\ SignupOnly
  \/ SignupSettlesStep /\ SignupOnly
  \/ Redirect /\ SignupOnly

\* ---- properties of SignUpPage ----

\* C2: the final submission invokes signup iff the required fields are
\* non-empty, password equals confirm-password and the strength score is at
\* least 3; a validation failure makes no call and leaves isSubmitting FALSE.
C2_SignupIffValid ==
  signupEv.kind = "submit" =>
    /\ signupEv.called <=>
         /\ name # "" /\ email # "" /\ password # <<>> /\ confirmPassword # <<>>
         /\ password = confirmPassword
         /\ PasswordStrength(password) >= 3
    /\ ~signupEv.called => (isSubmitting = FALSE /\ pendingSignups = 0)
    /\ (password # confirmPassword) => ~signupEv.called
    /\ signupEv.called => (isSubmitting = TRUE /\ pendingSignups = 1)

\* a submission rejected only for its score: all fields filled, the passwords
\* equal, the score exactly 2
C2_Witness ==
  /\ signupEv.kind = "submit"
  /\ ~signupEv.called
  /\ name # "" /\ email # ""
  /\ password = confirmPassword
  /\ PasswordStrength(password) = 2
  /\ error = ErrWeak

\* C12: isSubmitting is TRUE exactly while a signup call is pending, the
\* submit button is disabled exactly then, no submission is possible in that
\* period, and so at most one signup call is in flight at any time.
C12_OneSignupInFlight ==
  /\ pendingSignups <= 1
  /\ isSubmitting <=> pendingSignups = 1
  /\ SubmitDisabled <=> pendingSignups = 1
  /\ pendingSignups = 1 => ~ENABLED HandleSubmit

\* a call is pending, the user has edited a field since, and the form on
\* screen would pass validation if it could be submitted again
C12_Witness ==
  /\ pendingSignups = 1
  /\ signupEv.kind = "edit"
  /\ FinalFormShown
  /\ ~navigated
  /\ ValidationError = ""

\* C13: when signup settles, isSubmitting becomes FALSE; when it settles with
\* a failure the error is the fixed generic message and never the raw failure
\* text, the stage and the entered field values are left as they are, and a
\* form that is on its final stage can be submitted again.
C13_FailureIsGeneric ==
  /\ [][signupEv'.kind = "settled" =>
          /\ isSubmitting' = FALSE
          /\ ~signupEv'.ok =>
               /\ error' = "Something went wrong. Please try again."
               /\ error' # RawFailure
               /\ step' = step
               /\ <<email, name, password, confirmPassword>>' =
                    <<email, name, password, confirmPassword>>]_vars
  /\ []((signupEv.kind = "settled" /\ ~signupEv.ok /\ FinalFormShown /\ ~navigated)
          => ENABLED HandleSubmit)

\* a submission that passed validation has failed: the generic message is
\* shown over the final form, which still holds the values that were sent
C13_Witness ==
  /\ signupEv.kind = "settled"
  /\ ~signupEv.ok
  /\ error = ErrGeneric
  /\ ~isSubmitting
  /\ FinalFormShown
  /\ ~navigated
  /\ ValidationError = ""

\* a required field of the final form is empty: name, password,
\* confirm-password, and email where the final form has an email input
SomeRequiredEmpty ==
  \/ name = ""
  \/ password = <<>>
  \/ confirmPassword = <<>>
  \/ variant = SingleStep /\ email = ""

\* C14: the final submission checks required fields, then password equality,
\* then the strength score, and shows the message of the first check that
\* fails; when none fails the error is cleared.
C14_FirstFailingCheck ==
  signupEv.kind = "submit" =>
    /\ SomeRequiredEmpty => error = "Please fill in all required fields"
    /\ (~SomeRequiredEmpty /\ password # confirmPassword)
         => error = "Passwords do not match"
    /\ (~SomeRequiredEmpty /\ password = confirmPassword
          /\ PasswordStrength(password) < 3)
         => error = "Please choose a stronger password"
    /\ (~SomeRequiredEmpty /\ password = confirmPassword
          /\ PasswordStrength(password) >= 3)
         => error = ""

\* an empty name together with two different, non-empty, weak passwords:
\* all three checks would fail and the first one's message is shown
C14_Witness ==
  /\ signupEv.kind = "submit"
  /\ name = ""
  /\ password # <<>> /\ confirmPassword # <<>>
  /\ password # confirmPassword
  /\ PasswordStrength(password) < 3
  /\ error = ErrRequired

\* C15: in the two-step form, submitting stage 1 with a non-empty email clears
\* the error and moves step from 1 to 2; with an empty email it sets the
\* missing-email error and leaves step at 1; neither invokes signup.
C15_EmailStage ==
  [][signupEv'.kind = "email-submit" =>
       /\ variant = TwoStep /\ step = 1
       /\ email # "" => (error' = "" /\ step' = 2)
       /\ email = "" => (error' = "Please enter your email address" /\ step' = 1)
       /\ pendingSignups' = pendingSignups
       /\ isSubmitting' = isSubmitting]_vars

\* stage 1 was submitted with an email and the form is on stage 2, for the
\* second time at least: the name typed on the earlier visit is still there
C15_Witness ==
  /\ signupEv.kind = "email-submit"
  /\ variant = TwoStep
  /\ step = 2
  /\ email # ""
  /\ error = ""
  /\ name # ""

\* the five predicates of the claim, stated on the characters of p
Satisfied(p) ==
  {k \in {"lower", "upper", "digit", "special", "length"} :
    \/ k = "lower" /\ \E i \in DOMAIN p : p[i] \in LowerCaseChars
    \/ k = "upper" /\ \E i \in DOMAIN p : p[i] \in UpperCaseChars
    \/ k = "digit" /\ \E i \in DOMAIN p : p[i] \in DigitChars
    \/ k = "special" /\ \E i \in DOMAIN p : p[i] \in SpecialChars
    \/ k = "length" /\ Len(p) >= 8}

\* one character of each class, and one of no class
SampleChars == {"q", "Q", "7", "?", "_"}

\* the passwords compared with the typed ones: each typed password, and each
\* typed password with one more character
Extended(p) == {p} \cup {p \o <<c>> : c \in SampleChars}

\* C16: the score of a password is the number of predicates it satisfies
\* among lowercase, uppercase, digit, special character and length >= 8; it
\* lies in 0..5; a password that satisfies every predicate another one
\* satisfies does not score less.
C16_ScoreCountsPredicates ==
  \A p \in Extended(password) : \A q \in Extended(confirmPassword) :
    /\ PasswordStrength(p) = Cardinality(Satisfied(p))
    /\ PasswordStrength(p) \in 0..5
    /\ Satisfied(p) \subseteq Satisfied(q) => PasswordStrength(p) <= PasswordStrength(q)
    /\ (Satisfied(p) \subseteq Satisfied(q) /\ Satisfied(p) # Satisfied(q))
         => PasswordStrength(p) < PasswordStrength(q)

\* two typed passwords, the first satisfying the length predicate only and
\* the second all five
C16_Witness ==
  /\ Satisfied(password) = {"length"}
  /\ PasswordStrength(password) = 1
  /\ PasswordStrength(confirmPassword) = 5

\* the label table of the claim
LabelTable ==
  [sc \in 0..5 |->
     CASE sc = 0 -> "Very Weak" [] sc = 1 -> "Weak" [] sc = 2 -> "Fair"
       [] sc = 3 -> "Good" [] sc = 4 -> "Strong" [] sc = 5 -> "Very Strong"]

PassingLabels == {"Good", "Strong", "Very Strong"}

\* C20: the label of each score 0..5 is the one of the table; the label shown
\* for the typed password is one of Good / Strong / Very Strong exactly when
\* the password passes the strength check, and a submission that reached
\* signup shows one of the three.
C20_LabelOfScore ==
  /\ \A sc \in 0..5 : GetPasswordStrengthLabel(sc) = LabelTable[sc]
  /\ GetPasswordStrengthLabel(PasswordStrength(password)) \in PassingLabels
       <=> ~TooWeak(PasswordStrength(password))
  /\ (signupEv.kind = "submit" /\ signupEv.called)
       => GetPasswordStrengthLabel(PasswordStrength(password)) \in PassingLabels

\* a submission accepted with the lowest passing score, labelled 'Good'
C20_Witness ==
  /\ signupEv.kind = "submit"
  /\ signupEv.called
  /\ PasswordStrength(password) = 3
  /\ GetPasswordStrengthLabel(PasswordStrength(password)) = "Good"

\* C22: in the two-step form, step = 2 implies a non-empty email in every
\* reachable state, and so no submission that reaches signup has an empty
\* email, although the stage-2 handler does not test email.
C22_StepTwoHasEmail ==
  variant = TwoStep =>
    /\ step = 2 => email # ""
    /\ (signupEv.kind = "submit" /\ signupEv.called) => email # ""

\* signup was invoked from stage 2 of the two-step form
C22_Witness ==
  /\ variant = TwoStep
  /\ step = 2
  /\ signupEv.kind = "submit"
  /\ signupEv.called
  /\ email # ""

\* ------------------------------------------------------------------------
\* AdminDashboardPage
\* ------------------------------------------------------------------------

NumQueries == 5
Returned == NumQueries + 1

\* counts the backend reports
CountValues == {0, 1, 2, 3, 7, 10, 90}

\* a count is <<n>>, or <<>> for null
NullCount == <<>>

\* what one awaited count query settles to: a count, a null count without an
\* error, a returned error (count null), or an exception
QueryOutcomes ==
  {[count |-> <<n>>, error |-> FALSE, thrown |-> FALSE] : n \in CountValues}
  \cup {[count |-> NullCount, error |-> FALSE, thrown |-> FALSE],
        [count |-> NullCount, error |-> TRUE, thrown |-> FALSE],
        [count |-> NullCount, error |-> FALSE, thrown |-> TRUE]}

\* count || 0
OrZero(c) == IF c = NullCount THEN 0 ELSE c[1]

\* the largest power of two that is at most v (v >= 1)
RECURSIVE Pow2Floor(_)
Pow2Floor(v) == IF v < 2 THEN 1 ELSE 2 * Pow2Floor(v \div 2)

\* Math.floor(n * 0.7) in IEEE-754 doubles. The double 0.7 is 0.7 - 0.4 * 2^-53,
\* so n * 0.7 is exactly 0.7n - 0.4n * 2^-53 before rounding. When 7n is not a
\* multiple of 10 the floor is floor(7n / 10). When n = 10k the exact product is
\* 7k - 4k * 2^-53, which rounds (to nearest, ties to even) to 7k unless
\* 4k * 2^-53 exceeds half an ulp of 7k, that is unless 4k > 2^floor(log2(7k)).
ActiveUsers(n) ==
  IF n > 0 /\ (7 * n) % 10 = 0 /\ 4 * (n \div 10) > Pow2Floor((7 * n) \div 10)
    THEN (7 * n) \div 10 - 1
    ELSE (7 * n) \div 10

ZeroStats ==
  [totalUsers |-> 0, totalProjects |-> 0, totalResources |-> 0,
   totalCommunities |-> 0, activeUsers |-> 0, newUsersThisWeek |-> 0]

\* the record passed to setStats, from the five destructured counts
BuildStats(c) ==
  [totalUsers |-> OrZero(c[1]),
   totalProjects |-> OrZero(c[2]),
   totalResources |-> OrZero(c[3]),
   totalCommunities |-> OrZero(c[4]),
   activeUsers |-> ActiveUsers(OrZero(c[1])),
   newUsersThisWeek |-> OrZero(c[5])]

\* the value of the stat card with the given title
StatCard(title) ==
  CASE title = "Total Users" -> stats.totalUsers
    [] title = "Active Projects" -> stats.totalProjects
    [] title = "Learning Resources" -> stats.totalResources
    [] title = "Communities" -> stats.totalCommunities
    [] title = "Active Users" -> stats.activeUsers
    [] title = "New Users" -> stats.newUsersThisWeek

InitDashVars ==
  /\ stats = ZeroStats
  /\ dashLoading = TRUE
  /\ dashPc = 0
  /\ got = <<>>
  /\ failed = {}
  /\ dashEv = NoEv

\* useEffect(() => { ...; loadDashboardStats(); }, []): the first query is issued
DashMount ==
  /\ dashPc = 0
  /\ dashPc' = 1
  /\ dashEv' = [kind |-> "mount"]
  /\ UNCHANGED <<stats, dashLoading, got, failed>>

\* setIsLoading(false) as the last statement of the try block: skipped when
\* an awaited query throws
LoadingClearedInTryOnly(thrown) == IF thrown THEN dashLoading ELSE FALSE

\* finally { setIsLoading(false) }: the flag after loadDashboardStats returns
LoadingAfterReturn(thrown) == FALSE

\* the awaited query dashPc settles with outcome o and loadDashboardStats runs
\* on to its next await, or to its end
QuerySettles(o) ==
  /\ dashPc \in 1..NumQueries
  /\ IF o.thrown
       THEN \* catch: console.error; finally: setIsLoading(false)
            /\ dashPc' = Returned
            /\ dashLoading' = LoadingAfterReturn(TRUE)
            /\ failed' = failed \cup {dashPc}
            /\ dashEv' = [kind |-> "returned", logged |-> TRUE, escaped |-> FALSE]
            /\ UNCHANGED <<stats, got>>
       ELSE /\ got' = Append(got, o.count)
            /\ failed' = IF o.error THEN failed \cup {dashPc} ELSE failed
            /\ IF dashPc < NumQueries
                 THEN /\ dashPc' = dashPc + 1
                      /\ dashEv' = [kind |-> "next-query"]
                      /\ UNCHANGED <<stats, dashLoading>>
                 ELSE \* setStats({...}); finally: setIsLoading(false)
                      /\ dashPc' = Returned
                      /\ stats' = BuildStats(got')
                      /\ dashLoading' = LoadingAfterReturn(FALSE)
                      /\ dashEv' = [kind |-> "returned", logged |-> FALSE,
                                    escaped |-> FALSE]

QuerySettlesStep == \E o \in QueryOutcomes : QuerySettles(o)

DashOnly == UNCHANGED <<adminVars, signupVars, dbVars, enumVars>>

NextDashboard ==
  \/ DashMount /\ DashOnly
  \/ QuerySettlesStep /\ DashOnly

\* ---- properties of AdminDashboardPage ----

\* C3: if any of the five count queries fails, as a returned error with a null
\* count or as a thrown exception, the stats record is entirely zero-filled:
\* it never mixes real counts with zeros for the failed query.
C3_FailureZeroFills ==
  (dashPc = Returned /\ failed # {}) => stats = ZeroStats

\* a count with null read as 0
CountOrZero(c) == IF Len(c) = 0 THEN 0 ELSE c[1]

\* C17: when all five count queries succeed with counts (u, p, r, c, n), null
\* read as 0, the stats record holds u, p, r, c and n in totalUsers,
\* totalProjects, totalResources, totalCommunities and newUsersThisWeek, and
\* activeUsers is floor(0.7 * u), the integer quotient of 7u by 10; counts
\* (10, 3, 7, 2, 1) give activeUsers = 7 and a 'New Users' card showing 1.
C17_StatsFromCounts ==
  (dashPc = Returned /\ failed = {} /\ Len(got) = NumQueries) =>
    /\ stats.totalUsers = CountOrZero(got[1])
    /\ stats.totalProjects = CountOrZero(got[2])
    /\ stats.totalResources = CountOrZero(got[3])
    /\ stats.totalCommunities = CountOrZero(got[4])
    /\ stats.newUsersThisWeek = CountOrZero(got[5])
    /\ stats.activeUsers = (7 * CountOrZero(got[1])) \div 10
    /\ got = << <<10>>, <<3>>, <<7>>, <<2>>, <<1>> >> =>
         (stats.activeUsers = 7 /\ StatCard("New Users") = 1)

\* C18: the loading flag is TRUE until loadDashboardStats returns; when every
\* issued query settles, the flag becomes FALSE whether the queries succeed
\* or one of them fails, and stays FALSE; a failing query is caught and does
\* not escape loadDashboardStats.
C18_LoadingCleared ==
  /\ [](dashPc # Returned => dashLoading = TRUE)
  /\ <>(dashPc = Returned)
  /\ [](dashPc = Returned => dashLoading = FALSE)
  /\ [][dashLoading = FALSE => dashLoading' = FALSE]_vars
  /\ [](dashEv.kind = "returned" => ~dashEv.escaped)

\* the third query threw after two counts had arrived: the error was logged,
\* the flag is cleared and the initial record is still shown
C18_Witness ==
  /\ dashPc = Returned
  /\ dashLoading = FALSE
  /\ failed = {3}
  /\ Len(got) = 2
  /\ dashEv.kind = "returned" /\ dashEv.logged /\ ~dashEv.escaped
  /\ stats = ZeroStats

\* ------------------------------------------------------------------------
\* project collaboration schema and row-level security
\* (rows carry the columns the foreign keys and the policies read)
\* ------------------------------------------------------------------------

\* rows held by the four tables together, and rows of project_participants
MaxRows == 2
MaxParticipants == 2

Users == {"u1", "u2"}
Projects == {"p1", "p2"}
Roles == {"creator", "member"}
\* auth.uid(): a profile id, or NULL for an anonymous request
Actors == Users \cup {NULL}

Timelines == "project_timelines"
Resources == "project_resources"
Updates == "project_updates"
Discussions == "project_discussions"
Tables == {Timelines, Resources, Updates, Discussions}
ManagedTables == {Timelines, Resources, Updates}

RowIds == 1..MaxRows
\* an update_id is a project_updates id, or 0 for NULL
NullId == 0

\* SQL equality: NULL = x is not true
SqlEq(a, b) == a # NULL /\ b # NULL /\ a = b

Rows(t) ==
  CASE t = Timelines -> project_timelines
    [] t = Resources -> project_resources
    [] t = Updates -> project_updates
    [] t = Discussions -> project_discussions

\* the rows a statement can carry for table t
RowSpace(t) ==
  CASE t = Timelines -> [id : RowIds, project_id : Projects \cup {NULL}]
    [] t = Resources ->
         [id : RowIds, project_id : Projects \cup {NULL}, created_by : Users \cup {NULL}]
    [] t = Updates -> [id : RowIds, project_id : Projects \cup {NULL}]
    [] t = Discussions ->
         [id : RowIds, project_id : Projects \cup {NULL},
          update_id : RowIds \cup {NullId}, created_by : Users \cup {NULL}]

\* EXISTS (SELECT 1 FROM project_participants
\*         WHERE project_id = <row>.project_id AND user_id = auth.uid())
ParticipantOfRowProject(uid, row) ==
  \E pp \in project_participants :
    SqlEq(pp.project_id, row.project_id) /\ SqlEq(pp.user_id, uid)

\* ... AND role = 'creator'
CreatorOfRowProject(uid, row) ==
  \E pp \in project_participants :
    /\ SqlEq(pp.project_id, row.project_id)
    /\ SqlEq(pp.user_id, uid)
    /\ pp.role = "creator"

\* "Project timelines are viewable by project participants"
TimelinesSelectUsing(uid, row) == ParticipantOfRowProject(uid, row)
\* "Project creators can manage timelines" (FOR ALL)
TimelinesManageUsing(uid, row) == CreatorOfRowProject(uid, row)

\* "Project resources are viewable by project participants"
ResourcesSelectUsing(uid, row) == ParticipantOfRowProject(uid, row)
\* the policy written on the row's author instead of the project role
ResourcesManageByAuthor(uid, row) == SqlEq(row.created_by, uid)
\* "Project creators can manage resources" (FOR ALL)
ResourcesManageUsing(uid, row) == CreatorOfRowProject(uid, row)

\* "Project updates are viewable by project participants"
UpdatesSelectUsing(uid, row) == ParticipantOfRowProject(uid, row)
\* ... without the role test
UpdatesManageAnyRole(uid, row) == ParticipantOfRowProject(uid, row)
\* "Project creators can manage updates" (FOR ALL)
UpdatesManageUsing(uid, row) == CreatorOfRowProject(uid, row)

\* the SELECT policy without "AND project_participants.user_id = auth.uid()"
DiscussionsSelectAnyUser(uid, row) ==
  \E pp \in project_participants : SqlEq(pp.project_id, row.project_id)
\* "Project discussions are viewable by project participants"
DiscussionsSelectUsing(uid, row) == ParticipantOfRowProject(uid, row)
\* "Project participants can create discussions"
DiscussionsInsertCheck(uid, row) == ParticipantOfRowProject(uid, row)
\* USING written on the project role instead of the author
DiscussionsUpdateByCreatorRole(uid, row) == CreatorOfRowProject(uid, row)
\* "Users can update their own discussions": USING (created_by = auth.uid())
DiscussionsUpdateUsing(uid, row) == SqlEq(row.created_by, uid)
\* ... WITH CHECK (created_by = auth.uid())
DiscussionsUpdateCheck(uid, row) == SqlEq(row.created_by, uid)
\* "Users can delete their own discussions"
DiscussionsDeleteUsing(uid, row) == SqlEq(row.created_by, uid)

\* The policies are permissive: a command passes when one policy that applies
\* to it passes. A FOR ALL policy applies to every command, and its USING
\* expression is also its WITH CHECK.

\* the row is visible to a SELECT by uid
SelectAllowed(t, uid, row) ==
  CASE t = Timelines -> TimelinesSelectUsing(uid, row) \/ TimelinesManageUsing(uid, row)
    [] t = Resources -> ResourcesSelectUsing(uid, row) \/ ResourcesManageUsing(uid, row)
    [] t = Updates -> UpdatesSelectUsing(uid, row) \/ UpdatesManageUsing(uid, row)
    [] t = Discussions -> DiscussionsSelectUsing(uid, row)

\* the new row of an INSERT passes WITH CHECK
InsertAllowed(t, uid, row) ==
  CASE t = Timelines -> TimelinesManageUsing(uid, row)
    [] t = Resources -> ResourcesManageUsing(uid, row)
    [] t = Updates -> UpdatesManageUsing(uid, row)
    [] t = Discussions -> DiscussionsInsertCheck(uid, row)

\* an UPDATE ... WHERE id = ...: the old row is visible and passes USING, the
\* new row passes WITH CHECK; a statement that reads the relation in its
\* WHERE clause must also leave the new row visible to its author
UpdateAllowed(t, uid, old, new) ==
  /\ SelectAllowed(t, uid, old)
  /\ SelectAllowed(t, uid, new)
  /\ CASE t = Timelines ->
            TimelinesManageUsing(uid, old) /\ TimelinesManageUsing(uid, new)
       [] t = Resources ->
            ResourcesManageUsing(uid, old) /\ ResourcesManageUsing(uid, new)
       [] t = Updates ->
            UpdatesManageUsing(uid, old) /\ UpdatesManageUsing(uid, new)
       [] t = Discussions ->
            DiscussionsUpdateUsing(uid, old) /\ DiscussionsUpdateCheck(uid, new)

\* a DELETE ... WHERE id = ...: the row is visible and passes USING
DeleteAllowed(t, uid, row) ==
  /\ SelectAllowed(t, uid, row)
  /\ CASE t = Timelines -> TimelinesManageUsing(uid, row)
       [] t = Resources -> ResourcesManageUsing(uid, row)
       [] t = Updates -> UpdatesManageUsing(uid, row)
       [] t = Discussions -> DiscussionsDeleteUsing(uid, row)

\* REFERENCES projects(id), REFERENCES project_updates(id): NULL or an existing row
ForeignKeysHold(t, row) ==
  /\ row.project_id = NULL \/ row.project_id \in projects
  /\ t = Discussions =>
       (row.update_id = NullId \/ \E u \in project_updates : u.id = row.update_id)

\* ON DELETE CASCADE from project_updates to project_discussions
DiscussionsAfterUpdateDelete(ds, updateIds) ==
  {d \in ds : d.update_id \notin updateIds}

\* ON DELETE CASCADE from projects to a table with a project_id
RowsAfterProjectDelete(rs, p) == {r \in rs : r.project_id # p}

\* the participants of a deleted project go with it
ParticipantsAfterProjectDelete(pps, p) == {pp \in pps : pp.project_id # p}

TotalRows ==
  Cardinality(project_timelines) + Cardinality(project_resources)
    + Cardinality(project_updates) + Cardinality(project_discussions)

\* CHECK (status IN ('planning', 'development', 'testing', 'launched'))
ProjectStatuses == {"planning", "development", "testing", "launched"}
\* CHECK (phase IN ('planning', 'development', 'testing', 'launch'))
Phases == {"planning", "development", "testing", "launch"}
\* CHECK (status IN ('pending', 'in_progress', 'completed'))
TimelineStatuses == {"pending", "in_progress", "completed"}
\* CHECK (type IN ('document', 'link', 'forum'))
ResourceTypes == {"document", "link", "forum"}

\* the enumerated columns as the statements of NextDb write them: the
\* defaults of projects.status and project_timelines.status, and one phase
\* and one type
EnumInit ==
  /\ projects_status = [p \in Projects |-> "planning"]
  /\ timelines_phase = [i \in RowIds |-> "planning"]
  /\ timelines_status = [i \in RowIds |-> "pending"]
  /\ resources_type = [i \in RowIds |-> "document"]

InitDbVars ==
  /\ projects = Projects
  /\ project_participants = {}
  /\ project_timelines = {}
  /\ project_resources = {}
  /\ project_updates = {}
  /\ project_discussions = {}
  /\ EnumInit

\* table t becomes rs; a deleted update takes its discussions along
SetRows(t, rs) ==
  /\ project_timelines' = IF t = Timelines THEN rs ELSE project_timelines
  /\ project_resources' = IF t = Resources THEN rs ELSE project_resources
  /\ project_updates' = IF t = Updates THEN rs ELSE project_updates
  /\ project_discussions' =
       IF t = Discussions THEN rs
       ELSE IF t = Updates
         THEN DiscussionsAfterUpdateDelete(project_discussions,
                {u.id : u \in project_updates} \ {u.id : u \in rs})
         ELSE project_discussions

\* changes of project_participants (its own policies are not part of this migration)
AddParticipant(p, u, role) ==
  /\ p \in projects
  /\ ~\E pp \in project_participants : pp.project_id = p /\ pp.user_id = u
  /\ Cardinality(project_participants) < MaxParticipants
  /\ project_participants' =
       project_participants \cup {[project_id |-> p, user_id |-> u, role |-> role]}
  /\ UNCHANGED <<projects, project_timelines, project_resources, project_updates,
                 project_discussions>>

RemoveParticipant(pp) ==
  /\ pp \in project_participants
  /\ project_participants' = project_participants \ {pp}
  /\ UNCHANGED <<projects, project_timelines, project_resources, project_updates,
                 project_discussions>>

\* INSERT INTO t by uid
Insert(t, uid, row) ==
  /\ row \in RowSpace(t)
  /\ TotalRows < MaxRows
  /\ ~\E r \in Rows(t) : r.id = row.id
  /\ \A i \in RowIds : i < row.id => \E r \in Rows(t) : r.id = i
  /\ ForeignKeysHold(t, row)
  /\ InsertAllowed(t, uid, row)
  /\ SetRows(t, Rows(t) \cup {row})
  /\ UNCHANGED <<projects, project_participants>>

\* UPDATE t SET ... WHERE id = old.id by uid
Update(t, uid, old, new) ==
  /\ old \in Rows(t)
  /\ new \in RowSpace(t)
  /\ new.id = old.id
  /\ new # old
  /\ ForeignKeysHold(t, new)
  /\ UpdateAllowed(t, uid, old, new)
  /\ SetRows(t, (Rows(t) \ {old}) \cup {new})
  /\ UNCHANGED <<projects, project_participants>>

\* DELETE FROM t WHERE id = row.id by uid
Delete(t, uid, row) ==
  /\ row \in Rows(t)
  /\ DeleteAllowed(t, uid, row)
  /\ SetRows(t, Rows(t) \ {row})
  /\ UNCHANGED <<projects, project_participants>>

\* DELETE FROM projects WHERE id = p, with every ON DELETE CASCADE it triggers
DeleteProject(p) ==
  /\ p \in projects
  /\ projects' = projects \ {p}
  /\ project_participants' = ParticipantsAfterProjectDelete(project_participants, p)
  /\ project_timelines' = RowsAfterProjectDelete(project_timelines, p)
  /\ project_resources' = RowsAfterProjectDelete(project_resources, p)
  /\ project_updates' = RowsAfterProjectDelete(project_updates, p)
  /\ project_discussions' =
       DiscussionsAfterUpdateDelete(
         RowsAfterProjectDelete(project_discussions, p),
         {u.id : u \in project_updates} \
           {u.id : u \in RowsAfterProjectDelete(project_updates, p)})

AddParticipantStep ==
  \E p \in Projects, u \in Users, role \in Roles : AddParticipant(p, u, role)
RemoveParticipantStep == \E pp \in project_participants : RemoveParticipant(pp)
InsertStep(ts) ==
  \E t \in ts, uid \in Actors : \E row \in RowSpace(t) : Insert(t, uid, row)
UpdateStep(ts) ==
  \E t \in ts, uid \in Actors :
    \E old \in Rows(t) : \E new \in RowSpace(t) : Update(t, uid, old, new)
DeleteStep(ts) ==
  \E t \in ts, uid \in Actors : \E row \in Rows(t) : Delete(t, uid, row)
DeleteProjectStep == \E p \in Projects : DeleteProject(p)

\* statements that leave the enumerated columns at the values the rows carry
DbOnly == UNCHANGED <<adminVars, signupVars, dashVars, enumVars>>

\* the statements of clients that write the tables ts
NextDbOn(ts) ==
  \/ AddParticipantStep /\ DbOnly
  \/ RemoveParticipantStep /\ DbOnly
  \/ InsertStep(ts) /\ DbOnly
  \/ UpdateStep(ts) /\ DbOnly
  \/ DeleteStep(ts) /\ DbOnly
  \/ DeleteProjectStep /\ DbOnly

NextDb == NextDbOn(Tables)
\* clients that write only the three creator-managed tables
NextDbManaged == NextDbOn(ManagedTables)
\* clients that write only updates and their discussions
NextDbDiscussions == NextDbOn({Updates, Discussions})

\* ---- writes of the enumerated columns ----

\* a value outside every enumerated set
OutOfSet == "archived"

\* what a statement may carry for a column with the value set vs
Written(vs) == vs \cup {NULL, OutOfSet}

\* CHECK (col IN (...)): satisfied when the expression is true or null
CheckIn(v, vs) == v = NULL \/ v \in vs

\* projects.status text DEFAULT 'planning' CHECK (...)
ProjectsStatusAccepted(v) == CheckIn(v, ProjectStatuses)
\* project_timelines.phase text NOT NULL CHECK (...)
TimelinesPhaseAccepted(v) == v # NULL /\ CheckIn(v, Phases)
\* project_timelines.status text DEFAULT 'pending' CHECK (...)
TimelinesStatusAccepted(v) == CheckIn(v, TimelineStatuses)
\* project_resources.type text NOT NULL CHECK (...)
ResourcesTypeAccepted(v) == v # NULL /\ CheckIn(v, ResourceTypes)

\* UPDATE projects SET status = v WHERE id = p (the policies of projects are
\* not part of this migration)
UpdateProjectStatus(p, v) ==
  /\ p \in projects
  /\ ProjectsStatusAccepted(v)
  /\ projects_status' = [projects_status EXCEPT ![p] = v]
  /\ UNCHANGED <<dbVars, timelines_phase, timelines_status, resources_type>>

\* INSERT INTO project_timelines (..., phase, status) by uid
InsertTimeline(uid, row, phase, status) ==
  /\ TimelinesPhaseAccepted(phase)
  /\ TimelinesStatusAccepted(status)
  /\ Insert(Timelines, uid, row)
  /\ timelines_phase' = [timelines_phase EXCEPT ![row.id] = phase]
  /\ timelines_status' = [timelines_status EXCEPT ![row.id] = status]
  /\ UNCHANGED <<projects_status, resources_type>>

\* UPDATE project_timelines SET phase = ..., status = ... WHERE id = old.id by uid
UpdateTimeline(uid, old, phase, status) ==
  /\ old \in project_timelines
  /\ TimelinesPhaseAccepted(phase)
  /\ TimelinesStatusAccepted(status)
  /\ UpdateAllowed(Timelines, uid, old, old)
  /\ timelines_phase' = [timelines_phase EXCEPT ![old.id] = phase]
  /\ timelines_status' = [timelines_status EXCEPT ![old.id] = status]
  /\ UNCHANGED <<dbVars, projects_status, resources_type>>

\* INSERT INTO project_resources (..., type) by uid
InsertResource(uid, row, type) ==
  /\ ResourcesTypeAccepted(type)
  /\ Insert(Resources, uid, row)
  /\ resources_type' = [resources_type EXCEPT ![row.id] = type]
  /\ UNCHANGED <<projects_status, timelines_phase, timelines_status>>

\* UPDATE project_resources SET type = ... WHERE id = old.id by uid
UpdateResource(uid, old, type) ==
  /\ old \in project_resources
  /\ ResourcesTypeAccepted(type)
  /\ UpdateAllowed(Resources, uid, old, old)
  /\ resources_type' = [resources_type EXCEPT ![old.id] = type]
  /\ UNCHANGED <<dbVars, projects_status, timelines_phase, timelines_status>>

UpdateProjectStatusStep ==
  \E p \in Projects : \E v \in Written(ProjectStatuses) : UpdateProjectStatus(p, v)
InsertTimelineStep ==
  \E uid \in Actors : \E row \in RowSpace(Timelines) :
    \E phase \in Written(Phases) : \E status \in Written(TimelineStatuses) :
      InsertTimeline(uid, row, phase, status)
UpdateTimelineStep ==
  \E uid \in Actors : \E old \in project_timelines :
    \E phase \in Written(Phases) : \E status \in Written(TimelineStatuses) :
      UpdateTimeline(uid, old, phase, status)
InsertResourceStep ==
  \E uid \in Actors : \E row \in RowSpace(Resources) :
    \E type \in Written(ResourceTypes) : InsertResource(uid, row, type)
UpdateResourceStep ==
  \E uid \in Actors : \E old \in project_resources :
    \E type \in Written(ResourceTypes) : UpdateResource(uid, old, type)

ChecksOnly == UNCHANGED <<adminVars, signupVars, dashVars>>

\* the statements that write the enumerated columns
NextDbChecks ==
  \/ UpdateProjectStatusStep /\ ChecksOnly
  \/ InsertTimelineStep /\ ChecksOnly
  \/ UpdateTimelineStep /\ ChecksOnly
  \/ InsertResourceStep /\ ChecksOnly
  \/ UpdateResourceStep /\ ChecksOnly

\* ---- properties of the schema and its policies ----
\* A statement the policies or the constraints reject is no step: "uid may do
\* X" is ENABLED X, "uid is rejected" is ~ENABLED X.

\* a project_participants row links uid to project pid
HasLink(uid, pid) ==
  \E pp \in project_participants : pp.user_id = uid /\ pp.project_id = pid

\* ... with role = 'creator'
HasCreatorLink(uid, pid) ==
  \E pp \in project_participants :
    pp.user_id = uid /\ pp.project_id = pid /\ pp.role = "creator"

\* row can be stored in t as far as ids, capacity and foreign keys go
Storable(t, row) ==
  /\ TotalRows < MaxRows
  /\ ~\E r \in Rows(t) : r.id = row.id
  /\ \A i \in RowIds : i < row.id => \E r \in Rows(t) : r.id = i
  /\ ForeignKeysHold(t, row)

\* C4: a participant of the discussion's project may insert a discussion and
\* an identity without a project_participants row for it may not; an update
\* or delete of a discussion is permitted only to the row's created_by,
\* whatever the actor's role, and an update cannot change created_by.
C4_DiscussionPolicies ==
  \A uid \in Actors :
    /\ \A row \in RowSpace(Discussions) :
         Storable(Discussions, row) =>
           (HasLink(uid, row.project_id) <=> ENABLED Insert(Discussions, uid, row))
    /\ \A old \in project_discussions :
         /\ uid = old.created_by \/ ~ENABLED Delete(Discussions, uid, old)
         /\ \A new \in RowSpace(Discussions) :
              \/ uid = old.created_by /\ new.created_by = old.created_by
              \/ ~ENABLED Update(Discussions, uid, old, new)

\* a discussion written by a member, in a project where another participant
\* holds the creator role: the author may delete it, the creator may not
C4_Witness ==
  \E d \in project_discussions : \E c \in Users :
    /\ d.created_by \in Users
    /\ c # d.created_by
    /\ HasCreatorLink(c, d.project_id)
    /\ HasLink(d.created_by, d.project_id)
    /\ ~HasCreatorLink(d.created_by, d.project_id)
    /\ ENABLED Delete(Discussions, d.created_by, d)
    /\ ~ENABLED Delete(Discussions, c, d)
    /\ ~ENABLED Update(Discussions, c, d, [d EXCEPT !.created_by = c])

\* C5: on project_timelines, project_resources and project_updates every
\* insert, update and delete is permitted only to an identity that has a
\* project_participants row with role = 'creator' for the row's project.
C5_CreatorRoleManages ==
  \A t \in ManagedTables : \A uid \in Actors :
    /\ \A row \in RowSpace(t) :
         HasCreatorLink(uid, row.project_id) \/ ~ENABLED Insert(t, uid, row)
    /\ \A old \in Rows(t) :
         /\ HasCreatorLink(uid, old.project_id) \/ ~ENABLED Delete(t, uid, old)
         /\ \A new \in RowSpace(t) :
              \/ HasCreatorLink(uid, old.project_id)
                   /\ HasCreatorLink(uid, new.project_id)
              \/ ~ENABLED Update(t, uid, old, new)

\* a row of a managed table in a project with a creator and a member: the
\* creator may delete it, the member and the outsider may not
C5_Witness ==
  \E t \in ManagedTables : \E r \in Rows(t) : \E c, m \in Users :
    /\ HasCreatorLink(c, r.project_id)
    /\ HasLink(m, r.project_id) /\ ~HasCreatorLink(m, r.project_id)
    /\ ENABLED Delete(t, c, r)
    /\ ~ENABLED Delete(t, m, r)
    /\ ~ENABLED Delete(t, NULL, r)
    /\ t = Updates

\* C6 as claimed: a participant without the creator role cannot delete a
\* project_resources row, and the profile in the row's created_by can.
C6_AuthorMayDelete ==
  \A r \in project_resources :
    /\ \A uid \in Users :
         (HasLink(uid, r.project_id) /\ ~HasCreatorLink(uid, r.project_id)) =>
           ~ENABLED Delete(Resources, uid, r)
    /\ r.created_by # NULL => ENABLED Delete(Resources, r.created_by, r)

\* C6 as amended: a participant without the creator role cannot delete a
\* project_resources row, and a participant holding the creator role in the
\* row's project can, whoever the row's created_by is.
C6_CreatorRoleMayDelete ==
  \A r \in project_resources : \A uid \in Users :
    /\ (HasLink(uid, r.project_id) /\ ~HasCreatorLink(uid, r.project_id)) =>
         ~ENABLED Delete(Resources, uid, r)
    /\ HasCreatorLink(uid, r.project_id) => ENABLED Delete(Resources, uid, r)

\* a resource whose created_by is a member of its project, next to a
\* creator-role participant who is not its created_by
C6_Witness ==
  \E r \in project_resources : \E c \in Users :
    /\ r.created_by \in Users
    /\ c # r.created_by
    /\ HasLink(r.created_by, r.project_id)
    /\ ~HasCreatorLink(r.created_by, r.project_id)
    /\ HasCreatorLink(c, r.project_id)
    /\ ~ENABLED Delete(Resources, r.created_by, r)
    /\ ENABLED Delete(Resources, c, r)

\* C7: in each of the four tables an identity can read a row iff a
\* project_participants row links it to the row's project, whatever
\* participants were added and removed before.
C7_ReadIffParticipant ==
  \A t \in Tables : \A uid \in Actors : \A r \in Rows(t) :
    SelectAllowed(t, uid, r) <=> HasLink(uid, r.project_id)

\* after the creator who wrote an update was removed from its project: the
\* update and a discussion of the project are readable by the participant
\* that is left and by nobody else
C7_Witness ==
  \E u \in project_updates : \E d \in project_discussions : \E a, b \in Users :
    /\ d.project_id = u.project_id
    /\ ~\E c \in Users : HasCreatorLink(c, u.project_id)
    /\ SelectAllowed(Updates, a, u) /\ SelectAllowed(Discussions, a, d)
    /\ ~SelectAllowed(Updates, b, u) /\ ~SelectAllowed(Discussions, b, d)
    /\ ~\E pp \in project_participants : pp.user_id = b

\* C8: deleting a project removes its timelines, resources and updates and the
\* discussions tied to those updates; afterwards no row of the four tables
\* refers to the project or to one of its deleted updates, and the rows of
\* other projects are unchanged.
C8_ProjectDeleteCascade ==
  [][\A p \in Projects :
       (p \in projects /\ p \notin projects') =>
         LET gone == {u.id : u \in {x \in project_updates : x.project_id = p}}
             Other(rs) == {r \in rs : r.project_id # p}
         IN /\ \A r \in project_timelines' : r.project_id # p
            /\ \A r \in project_resources' : r.project_id # p
            /\ \A r \in project_updates' : r.project_id # p
            /\ \A r \in project_discussions' :
                 r.project_id # p /\ r.update_id \notin gone
            /\ Other(project_timelines') = Other(project_timelines)
            /\ Other(project_resources') = Other(project_resources)
            /\ Other(project_updates') = Other(project_updates)
            /\ Other(project_discussions') = Other(project_discussions)]_vars

\* no permitted update of a discussion changes its created_by
AuthorKept ==
  \A uid \in Actors : \A old \in project_discussions :
    \A new \in RowSpace(Discussions) :
      new.created_by = old.created_by \/ ~ENABLED Update(Discussions, uid, old, new)

\* C23: every project_discussions row is authored by the identity that
\* inserted it: an insert is permitted only when the row's created_by is the
\* inserting identity, and no permitted update changes created_by.
C23_AuthorIsInserter ==
  /\ \A uid \in Actors : \A row \in RowSpace(Discussions) :
       row.created_by = uid \/ ~ENABLED Insert(Discussions, uid, row)
  /\ AuthorKept

\* C24: every project_discussions row has its update_id and its project_id
\* set, and the project_updates row it references has the same project_id.
C24_DiscussionAttached ==
  \A d \in project_discussions :
    /\ d.project_id # NULL
    /\ d.update_id # NullId
    /\ \E u \in project_updates : u.id = d.update_id /\ u.project_id = d.project_id

\* every stored enumerated column holds a value of its set
StoredValuesInSet ==
  /\ \A p \in projects : projects_status[p] \in ProjectStatuses
  /\ \A r \in project_timelines :
       /\ timelines_phase[r.id] \in Phases
       /\ timelines_status[r.id] \in TimelineStatuses
  /\ \A r \in project_resources : resources_type[r.id] \in ResourceTypes

\* no insert or update that carries the out-of-set value is accepted
OutOfSetRejected ==
  /\ \A p \in projects : ~ENABLED UpdateProjectStatus(p, OutOfSet)
  /\ \A uid \in Actors :
       /\ \A row \in RowSpace(Timelines) :
            /\ \A status \in Written(TimelineStatuses) :
                 ~ENABLED InsertTimeline(uid, row, OutOfSet, status)
            /\ \A phase \in Written(Phases) :
                 ~ENABLED InsertTimeline(uid, row, phase, OutOfSet)
       /\ \A old \in project_timelines :
            /\ \A status \in Written(TimelineStatuses) :
                 ~ENABLED UpdateTimeline(uid, old, OutOfSet, status)
            /\ \A phase \in Written(Phases) :
                 ~ENABLED UpdateTimeline(uid, old, phase, OutOfSet)
       /\ \A row \in RowSpace(Resources) : ~ENABLED InsertResource(uid, row, OutOfSet)
       /\ \A old \in project_resources : ~ENABLED UpdateResource(uid, old, OutOfSet)

\* a project's status can be set to every value of the set, whatever it is now
AnyTransitionAccepted ==
  \A p \in projects : \A v \in ProjectStatuses : ENABLED UpdateProjectStatus(p, v)

\* C19: after any sequence of inserts and updates every stored
\* projects.status, project_timelines.phase, project_timelines.status and
\* project_resources.type is a value of its enumerated set; a write carrying
\* an out-of-set value is rejected; a project status update between any two
\* values of the set is accepted.
C19_EnumeratedColumns ==
  /\ StoredValuesInSet
  /\ OutOfSetRejected
  /\ AnyTransitionAccepted

\* ------------------------------------------------------------------------
\* specifications
\* ------------------------------------------------------------------------

\* a component that is not running: its state at construction
AdminIdle ==
  /\ user = NoUser /\ admin_users = {} /\ isAdmin = FALSE /\ isLoading = TRUE
  /\ mounted = FALSE /\ inflight = {} /\ issued = 0
  /\ latest = [kind |-> "none"] /\ computedFor = NotComputed /\ adminEv = NoEv

SignupIdle ==
  /\ variant = SingleStep /\ step = 1 /\ email = "" /\ name = ""
  /\ password = <<>> /\ confirmPassword = <<>> /\ isSubmitting = FALSE
  /\ error = "" /\ pendingSignups = 0 /\ isAuthenticated = FALSE
  /\ navigated = FALSE /\ signupEv = NoEv

DashIdle ==
  /\ stats = ZeroStats /\ dashLoading = TRUE /\ dashPc = 0 /\ got = <<>>
  /\ failed = {} /\ dashEv = NoEv

DbIdle ==
  /\ projects = Projects /\ project_participants = {} /\ project_timelines = {}
  /\ project_resources = {} /\ project_updates = {} /\ project_discussions = {}
  /\ EnumInit

InitAdmin == InitAdminVars /\ SignupIdle /\ DashIdle /\ DbIdle
SpecAdmin == InitAdmin /\ [][NextAdmin]_vars

InitSignup == InitSignupVars /\ AdminIdle /\ DashIdle /\ DbIdle
SpecSignup == InitSignup /\ [][NextSignup]_vars

InitDashboard == InitDashVars /\ AdminIdle /\ SignupIdle /\ DbIdle
SpecDashboard == InitDashboard /\ [][NextDashboard]_vars
\* the mount effect runs, and every issued query settles
SpecDashboardLive ==
  /\ SpecDashboard
  /\ WF_vars(DashMount /\ DashOnly)
  /\ WF_vars(QuerySettlesStep /\ DashOnly)

InitDb == InitDbVars /\ AdminIdle /\ SignupIdle /\ DashIdle
SpecDb == InitDb /\ [][NextDb]_vars
SpecDbManaged == InitDb /\ [][NextDbManaged]_vars
SpecDbDiscussions == InitDb /\ [][NextDbDiscussions]_vars

\* the enumerated columns, written in a project that has its creator
InitDbChecks ==
  /\ projects = Projects
  /\ project_participants =
       {[project_id |-> "p1", user_id |-> "u1", role |-> "creator"]}
  /\ project_timelines = {} /\ project_resources = {}
  /\ project_updates = {} /\ project_discussions = {}
  /\ EnumInit
  /\ AdminIdle /\ SignupIdle /\ DashIdle
SpecDbChecks == InitDbChecks /\ [][NextDbChecks]_vars

====
